---- MODULE Spec2Model ----
(***************************************************************************)
(* Verification model of the task priority scoring engine                  *)
(* (tasks/scoring.py) and of the two request handlers in front of it       *)
(* (tasks/views.py).                                                       *)
(*                                                                         *)
(* Number encoding.  Factor scores and final scores are Python floats on   *)
(* the grid of multiples of 0.5; the model holds them exactly, as integers *)
(* in HUNDREDTHS of a point (95.0 is 9500).  Strategy weights are held in  *)
(* hundredths (0.35 is 35), so a weighted sum is in 1/10000 of a point.    *)
(*                                                                         *)
(* Value encoding.  A raw task record comes from JSON and its fields may   *)
(* hold any shape; every raw value is a record [k |-> kind, v |-> value]:  *)
(*   "absent" the key is missing        "null"  None                       *)
(*   "int"    an integer v              "numstr" text that int() accepts   *)
(*   "str"    any other text            "inf"   the float infinity         *)
(*   "list"   a list v of ids           "date"  a calendar date, day v     *)
(*   "iso"    text that parse_date accepts, naming day v                   *)
(* Text that the code inspects (a title) is a sequence of characters.      *)
(* Task ids are integers 1..NumIds; NoId stands for None / no id.          *)
(***************************************************************************)
EXTENDS Integers, Sequences, FiniteSets, TLC

VARIABLES
    tasks,          \* analyze_tasks: the batch, a sequence of raw task records
    strategy,       \* analyze_tasks: the strategy name
    completed_ids,  \* analyze_tasks: the ids of completed tasks
    today,          \* date.today(), a day number
    pc,             \* position in analyze_tasks
    err,            \* the exception that left analyze_tasks ("" while none)
    visited,        \* detect_circular_dependencies: visited
    rec_stack,      \* detect_circular_dependencies: rec_stack
    frames,         \* the activation records of has_cycle, innermost last
    ret,            \* the value the last has_cycle activation returned
    outer,          \* position of the outer loop in task_map's key order
    dep_warnings,   \* detect_circular_dependencies: warnings
    scored_tasks,   \* analyze_tasks: scored_tasks
    result,         \* what analyze_tasks returned
    entry,          \* the function called from outside
    request,        \* the HTTP request a view handles (None for a direct call)
    count,          \* get_top_suggestions: count
    suggested,      \* what get_top_suggestions returned
    response        \* the HTTP response of the view (None while none)

vars == <<tasks, strategy, completed_ids, today, pc, err, visited, rec_stack,
          frames, ret, outer, dep_warnings, scored_tasks, result,
          entry, request, count, suggested, response>>

----------------------------------------------------------------------------
(* Bounds of the model. *)

MaxTasks == 3       \* tasks in a batch
NumIds == 3         \* distinct task ids
MaxEdges == 3       \* dependency entries in a batch, summed over its tasks
MaxDays == 32       \* days between today and a due date, either way
MaxHours == 20      \* largest estimated_hours
MaxFan == 3         \* tasks that depend on one and the same task

Ids == 1..NumIds
NoId == 0
None == [k |-> "null", v |-> 0]
Absent == [k |-> "absent", v |-> 0]

Min(a, b) == IF a <= b THEN a ELSE b
Max(a, b) == IF a >= b THEN a ELSE b
Abs(a) == IF a < 0 THEN 0 - a ELSE a

----------------------------------------------------------------------------
(* The strategy table. *)

StrategyNames ==
    {"balanced", "smart_balance", "deadline_driven", "high_impact", "fastest_wins"}

\* the strategy table with an even split left in the 'balanced' entry
STRATEGY_WEIGHTS_EvenBalanced ==
    [s \in StrategyNames |->
        CASE s = "balanced" ->
                [urgency |-> 25, importance |-> 25, effort |-> 25, dependency |-> 25,
                 description |-> "Balanced consideration of all factors"]
          [] s = "smart_balance" ->
                [urgency |-> 35, importance |-> 30, effort |-> 20, dependency |-> 15,
                 description |-> "Balanced consideration of all factors"]
          [] s = "deadline_driven" ->
                [urgency |-> 55, importance |-> 25, effort |-> 10, dependency |-> 10,
                 description |-> "Prioritize tasks with approaching deadlines"]
          [] s = "high_impact" ->
                [urgency |-> 20, importance |-> 50, effort |-> 15, dependency |-> 15,
                 description |-> "Focus on high-importance tasks first"]
          [] s = "fastest_wins" ->
                [urgency |-> 20, importance |-> 20, effort |-> 45, dependency |-> 15,
                 description |-> "Prioritize quick tasks to build momentum"]]

STRATEGY_WEIGHTS ==
    [s \in StrategyNames |->
        CASE s = "balanced" ->
                [urgency |-> 35, importance |-> 30, effort |-> 20, dependency |-> 15,
                 description |-> "Balanced consideration of all factors"]
          [] s = "smart_balance" ->
                [urgency |-> 35, importance |-> 30, effort |-> 20, dependency |-> 15,
                 description |-> "Balanced consideration of all factors"]
          [] s = "deadline_driven" ->
                [urgency |-> 55, importance |-> 25, effort |-> 10, dependency |-> 10,
                 description |-> "Prioritize tasks with approaching deadlines"]
          [] s = "high_impact" ->
                [urgency |-> 20, importance |-> 50, effort |-> 15, dependency |-> 15,
                 description |-> "Focus on high-importance tasks first"]
          [] s = "fastest_wins" ->
                [urgency |-> 20, importance |-> 20, effort |-> 45, dependency |-> 15,
                 description |-> "Prioritize quick tasks to build momentum"]]

\* STRATEGY_WEIGHTS.get(strategy, STRATEGY_WEIGHTS[fallback])
WeightsGet(s, fallback) ==
    IF s \in DOMAIN STRATEGY_WEIGHTS THEN STRATEGY_WEIGHTS[s] ELSE STRATEGY_WEIGHTS[fallback]

----------------------------------------------------------------------------
(* Helpers of the input normalizer. *)

\* str.strip(): drop the leading and the trailing blanks
RECURSIVE LStrip(_)
LStrip(s) == IF s # <<>> /\ Head(s) = " " THEN LStrip(Tail(s)) ELSE s

RECURSIVE RStrip(_)
RStrip(s) == IF s # <<>> /\ s[Len(s)] = " " THEN RStrip(SubSeq(s, 1, Len(s) - 1)) ELSE s

Strip(s) == RStrip(LStrip(s))

\* parse_date: a date passes through, accepted text becomes its date,
\* everything else (None, other text, other shapes) is None
parse_date(date_input) ==
    CASE date_input.k = "date" -> date_input
      [] date_input.k = "iso"  -> [k |-> "date", v |-> date_input.v]
      [] OTHER                 -> None

\* int(task.get(key, default)): the integer, or the exception int() raises
IntOf(raw, default) ==
    CASE raw.k = "absent" -> [ok |-> TRUE, v |-> default, exc |-> ""]
      [] raw.k = "int"    -> [ok |-> TRUE, v |-> raw.v, exc |-> ""]
      [] raw.k = "numstr" -> [ok |-> TRUE, v |-> raw.v, exc |-> ""]
      [] raw.k = "str"    -> [ok |-> FALSE, v |-> 0, exc |-> "ValueError"]
      [] raw.k = "inf"    -> [ok |-> FALSE, v |-> 0, exc |-> "OverflowError"]
      [] OTHER            -> [ok |-> FALSE, v |-> 0, exc |-> "TypeError"]

\* the exceptions the two try blocks of validate_task_data catch
Caught == {"ValueError", "TypeError"}

----------------------------------------------------------------------------
(* validate_task_data: the normalized task, its warnings, and the          *)
(* exception that escaped ("" when the function returned).                 *)

\* task.get('title', '').strip(): only text has a strip method
TitleOf(task) ==
    CASE task.title.k = "absent" -> [exc |-> "", v |-> <<>>]
      [] task.title.k = "str"    -> [exc |-> "", v |-> Strip(task.title.v)]
      [] OTHER                   -> [exc |-> "AttributeError", v |-> <<>>]

UntitledTask == <<"U", "n", "t", "i", "t", "l", "e", "d", " ", "T", "a", "s", "k">>

ImportanceOf(task) ==
    LET c == IntOf(task.importance, 5) IN
    IF c.ok
    THEN IF c.v < 1 THEN [exc |-> "", v |-> 1, w |-> <<"Importance below 1 - clamped to 1">>]
         ELSE IF c.v > 10 THEN [exc |-> "", v |-> 10, w |-> <<"Importance above 10 - clamped to 10">>]
         ELSE [exc |-> "", v |-> c.v, w |-> <<>>]
    ELSE IF c.exc \in Caught
         THEN [exc |-> "", v |-> 5, w |-> <<"Invalid importance value - defaulted to 5">>]
         ELSE [exc |-> c.exc, v |-> 0, w |-> <<>>]

\* HoursOf taking the absolute value of zero hours too
HoursOf_AbsOnly(task) ==
    LET c == IntOf(task.estimated_hours, 2) IN
    IF c.ok
    THEN IF c.v <= 0
         THEN [exc |-> "", v |-> Abs(c.v),
               w |-> <<"Invalid hours - converted to positive">>]
         ELSE [exc |-> "", v |-> c.v, w |-> <<>>]
    ELSE IF c.exc \in Caught
         THEN [exc |-> "", v |-> 2, w |-> <<"Invalid estimated_hours - defaulted to 2">>]
         ELSE [exc |-> c.exc, v |-> 0, w |-> <<>>]

HoursOf(task) ==
    LET c == IntOf(task.estimated_hours, 2) IN
    IF c.ok
    THEN IF c.v <= 0
         THEN [exc |-> "", v |-> IF c.v # 0 THEN Abs(c.v) ELSE 2,
               w |-> <<"Invalid hours - converted to positive">>]
         ELSE [exc |-> "", v |-> c.v, w |-> <<>>]
    ELSE IF c.exc \in Caught
         THEN [exc |-> "", v |-> 2, w |-> <<"Invalid estimated_hours - defaulted to 2">>]
         ELSE [exc |-> c.exc, v |-> 0, w |-> <<>>]

\* task.get('dependencies', []) of a raw task: the default for a missing key
RawDeps(task) == IF task.dependencies.k = "absent" THEN <<>> ELSE task.dependencies.v

\* is the raw dependencies value (with the default []) a list
IsList(deps) == deps.k \in {"absent", "list"}

validate_task_data(task) ==
    LET t == TitleOf(task)
        title == IF t.v = <<>> THEN UntitledTask ELSE t.v
        wTitle == IF t.v = <<>> THEN <<"Missing title - defaulted to Untitled Task">> ELSE <<>>
        due == parse_date(task.due_date)
        \* "if raw_date and ... is None": None and a missing key are falsy
        wDate == IF task.due_date.k \notin {"absent", "null"} /\ due = None
                 THEN <<"Invalid date format">> ELSE <<>>
        imp == ImportanceOf(task)
        hrs == HoursOf(task)
        deps == IF IsList(task.dependencies) THEN RawDeps(task) ELSE <<>>
        wDeps == IF IsList(task.dependencies) THEN <<>>
                 ELSE <<"Invalid dependencies format - defaulted to empty list">>
        exc == IF t.exc # "" THEN t.exc
               ELSE IF imp.exc # "" THEN imp.exc
               ELSE hrs.exc
    IN  IF exc # ""
        THEN [exc |-> exc, normalized |-> None, warnings |-> <<>>]
        ELSE [exc |-> "",
              normalized |-> [title |-> title, due_date |-> due, importance |-> imp.v,
                              estimated_hours |-> hrs.v, dependencies |-> deps,
                              id |-> task.id],
              warnings |-> wTitle \o wDate \o imp.w \o hrs.w \o wDeps]

----------------------------------------------------------------------------
(* The factor scorers.  Each yields [score, exp]: the score in hundredths  *)
(* and the explanation as its text and the number formatted into it.       *)

\* calculate_urgency_score with the overdue escalation left unclamped
calculate_urgency_score_Uncapped(due_date, now) ==
    IF due_date = None
    THEN [score |-> 3000, exp |-> [text |-> "No deadline set - medium urgency assumed", n |-> 0]]
    ELSE LET days_until == due_date.v - now IN
         IF days_until < 0
         THEN LET days_overdue == Abs(days_until) IN
              [score |-> 10000 + days_overdue * 50,
               exp |-> [text |-> "WARNING: OVERDUE by n day(s)!", n |-> days_overdue]]
         ELSE IF days_until = 0
         THEN [score |-> 9500, exp |-> [text |-> "Due TODAY - urgent!", n |-> 0]]
         ELSE IF days_until = 1
         THEN [score |-> 8500, exp |-> [text |-> "Due tomorrow - very urgent", n |-> 0]]
         ELSE IF days_until <= 3
         THEN [score |-> 8000 - (days_until - 1) * 500,
               exp |-> [text |-> "Due in n days - urgent", n |-> days_until]]
         ELSE IF days_until <= 7
         THEN [score |-> 6500 - (days_until - 3) * 600,
               exp |-> [text |-> "Due in n days - approaching", n |-> days_until]]
         ELSE IF days_until <= 14
         THEN [score |-> 3500 - (days_until - 7) * 200,
               exp |-> [text |-> "Due in n days", n |-> days_until]]
         ELSE IF days_until <= 30
         THEN [score |-> Max(1000, 2000 - (days_until - 14) * 50),
               exp |-> [text |-> "Due in n days - not urgent", n |-> days_until]]
         ELSE [score |-> 500, exp |-> [text |-> "Due in n days - low urgency", n |-> days_until]]

calculate_urgency_score(due_date, now) ==
    IF due_date = None
    THEN [score |-> 3000, exp |-> [text |-> "No deadline set - medium urgency assumed", n |-> 0]]
    ELSE LET days_until == due_date.v - now IN
         IF days_until < 0
         THEN LET days_overdue == Abs(days_until) IN
              [score |-> Min(10000, 10000 + days_overdue * 50),
               exp |-> [text |-> "WARNING: OVERDUE by n day(s)!", n |-> days_overdue]]
         ELSE IF days_until = 0
         THEN [score |-> 9500, exp |-> [text |-> "Due TODAY - urgent!", n |-> 0]]
         ELSE IF days_until = 1
         THEN [score |-> 8500, exp |-> [text |-> "Due tomorrow - very urgent", n |-> 0]]
         ELSE IF days_until <= 3
         THEN [score |-> 8000 - (days_until - 1) * 500,
               exp |-> [text |-> "Due in n days - urgent", n |-> days_until]]
         ELSE IF days_until <= 7
         THEN [score |-> 6500 - (days_until - 3) * 600,
               exp |-> [text |-> "Due in n days - approaching", n |-> days_until]]
         ELSE IF days_until <= 14
         THEN [score |-> 3500 - (days_until - 7) * 200,
               exp |-> [text |-> "Due in n days", n |-> days_until]]
         ELSE IF days_until <= 30
         THEN [score |-> Max(1000, 2000 - (days_until - 14) * 50),
               exp |-> [text |-> "Due in n days - not urgent", n |-> days_until]]
         ELSE [score |-> 500, exp |-> [text |-> "Due in n days - low urgency", n |-> days_until]]

\* calculate_importance_score with the cap at 100 left out
calculate_importance_score_Uncapped(importance) ==
    LET base == importance * 10
        bonus == (importance - 7) * (importance - 7) * 3
        base_score == IF importance >= 8 THEN base + bonus ELSE base
        desc == IF importance >= 9 THEN "Critical priority"
                ELSE IF importance >= 7 THEN "High priority"
                ELSE IF importance >= 5 THEN "Medium priority"
                ELSE IF importance >= 3 THEN "Low priority"
                ELSE "Minimal priority"
    IN  [score |-> base_score * 100, exp |-> [text |-> desc, n |-> 0]]

calculate_importance_score(importance) ==
    LET base == importance * 10
        bonus == (importance - 7) * (importance - 7) * 3
        base_score == IF importance >= 8 THEN Min(100, base + bonus) ELSE base
        desc == IF importance >= 9 THEN "Critical priority"
                ELSE IF importance >= 7 THEN "High priority"
                ELSE IF importance >= 5 THEN "Medium priority"
                ELSE IF importance >= 3 THEN "Low priority"
                ELSE "Minimal priority"
    IN  [score |-> base_score * 100, exp |-> [text |-> desc, n |-> 0]]

\* calculate_effort_score with the first branch taking one hour too ("<= 1")
calculate_effort_score_QuickAtOne(estimated_hours) ==
    IF estimated_hours <= 1
    THEN [score |-> 10000, exp |-> [text |-> "Super quick task!", n |-> 0]]
    ELSE IF estimated_hours <= 2
    THEN [score |-> 8500 - (estimated_hours - 1) * 1000,
          exp |-> [text |-> "Quick win (nh)", n |-> estimated_hours]]
    ELSE IF estimated_hours <= 4
    THEN [score |-> 7500 - (estimated_hours - 2) * 1000,
          exp |-> [text |-> "Moderate effort (nh)", n |-> estimated_hours]]
    ELSE IF estimated_hours <= 8
    THEN [score |-> 5500 - (estimated_hours - 4) * 500,
          exp |-> [text |-> "Significant effort (nh)", n |-> estimated_hours]]
    ELSE [score |-> Max(1000, 2800 - (estimated_hours - 8) * 200),
          exp |-> [text |-> "Major effort (nh)", n |-> estimated_hours]]

\* calculate_effort_score with the 2-4 hour branch starting from the
\* docstring's 65 points instead of 75
calculate_effort_score_From65(estimated_hours) ==
    IF estimated_hours < 1
    THEN [score |-> 10000, exp |-> [text |-> "Super quick task!", n |-> 0]]
    ELSE IF estimated_hours <= 2
    THEN [score |-> 8500 - (estimated_hours - 1) * 1000,
          exp |-> [text |-> "Quick win (nh)", n |-> estimated_hours]]
    ELSE IF estimated_hours <= 4
    THEN [score |-> 6500 - (estimated_hours - 2) * 1000,
          exp |-> [text |-> "Moderate effort (nh)", n |-> estimated_hours]]
    ELSE IF estimated_hours <= 8
    THEN [score |-> 5500 - (estimated_hours - 4) * 500,
          exp |-> [text |-> "Significant effort (nh)", n |-> estimated_hours]]
    ELSE [score |-> Max(1000, 2800 - (estimated_hours - 8) * 200),
          exp |-> [text |-> "Major effort (nh)", n |-> estimated_hours]]

calculate_effort_score(estimated_hours) ==
    IF estimated_hours < 1
    THEN [score |-> 10000, exp |-> [text |-> "Super quick task!", n |-> 0]]
    ELSE IF estimated_hours <= 2
    THEN [score |-> 8500 - (estimated_hours - 1) * 1000,
          exp |-> [text |-> "Quick win (nh)", n |-> estimated_hours]]
    ELSE IF estimated_hours <= 4
    THEN [score |-> 7500 - (estimated_hours - 2) * 1000,
          exp |-> [text |-> "Moderate effort (nh)", n |-> estimated_hours]]
    ELSE IF estimated_hours <= 8
    THEN [score |-> 5500 - (estimated_hours - 4) * 500,
          exp |-> [text |-> "Significant effort (nh)", n |-> estimated_hours]]
    ELSE [score |-> Max(1000, 2800 - (estimated_hours - 8) * 200),
          exp |-> [text |-> "Major effort (nh)", n |-> estimated_hours]]

\* "task_id in task_deps" for an integer task_id: None and a number are not
\* containers and text only admits text on the left, so each raises TypeError
InRaises(task) == task.dependencies.k \notin {"absent", "list"}

Count(seq, P(_)) == Cardinality({i \in DOMAIN seq : P(seq[i])})

\* calculate_dependency_score taking 25 points, not 20, for each unmet dependency
calculate_dependency_score_Penalty25(task_id, dependencies, all_tasks, completed) ==
    LET unmet == Count(dependencies, LAMBDA d : d \notin completed)
        own == IF dependencies # <<>>
               THEN IF unmet > 0 THEN 0 - Min(50, unmet * 25) ELSE 10
               ELSE 0
        ownExp == IF dependencies # <<>>
                  THEN IF unmet > 0 THEN <<[text |-> "Blocked by n task(s)", n |-> unmet]>>
                       ELSE <<[text |-> "All dependencies complete", n |-> 0]>>
                  ELSE <<>>
        raises == task_id # NoId /\ \E i \in DOMAIN all_tasks : InRaises(all_tasks[i])
        blocked_count ==
            IF task_id = NoId \/ raises THEN 0
            ELSE Count(all_tasks, LAMBDA t : \E j \in DOMAIN RawDeps(t) : RawDeps(t)[j] = task_id)
        blocker_bonus == IF blocked_count > 0 THEN Min(30, blocked_count * 15) ELSE 0
        blockExp == IF blocked_count > 0
                    THEN <<[text |-> "Blocks n other task(s)", n |-> blocked_count]>>
                    ELSE <<>>
        score == Max(0, Min(100, 70 + own + blocker_bonus))
        explanations == ownExp \o blockExp
    IN  [exc |-> IF raises THEN "TypeError" ELSE "",
         score |-> score * 100,
         exp |-> IF explanations # <<>> THEN explanations
                 ELSE <<[text |-> "No dependencies", n |-> 0]>>]

calculate_dependency_score(task_id, dependencies, all_tasks, completed) ==
    LET unmet == Count(dependencies, LAMBDA d : d \notin completed)
        own == IF dependencies # <<>>
               THEN IF unmet > 0 THEN 0 - Min(50, unmet * 20) ELSE 10
               ELSE 0
        ownExp == IF dependencies # <<>>
                  THEN IF unmet > 0 THEN <<[text |-> "Blocked by n task(s)", n |-> unmet]>>
                       ELSE <<[text |-> "All dependencies complete", n |-> 0]>>
                  ELSE <<>>
        raises == task_id # NoId /\ \E i \in DOMAIN all_tasks : InRaises(all_tasks[i])
        blocked_count ==
            IF task_id = NoId \/ raises THEN 0
            ELSE Count(all_tasks, LAMBDA t : \E j \in DOMAIN RawDeps(t) : RawDeps(t)[j] = task_id)
        blocker_bonus == IF blocked_count > 0 THEN Min(30, blocked_count * 15) ELSE 0
        blockExp == IF blocked_count > 0
                    THEN <<[text |-> "Blocks n other task(s)", n |-> blocked_count]>>
                    ELSE <<>>
        score == Max(0, Min(100, 70 + own + blocker_bonus))
        explanations == ownExp \o blockExp
    IN  [exc |-> IF raises THEN "TypeError" ELSE "",
         score |-> score * 100,
         exp |-> IF explanations # <<>> THEN explanations
                 ELSE <<[text |-> "No dependencies", n |-> 0]>>]

----------------------------------------------------------------------------
(* calculate_task_score *)

\* round(x, 2) of a value held in 1/10000, to hundredths; a tie goes to the
\* even neighbour (exact arithmetic)
Round2(x) ==
    LET q == x \div 100
        r == x % 100
    IN  IF r < 50 THEN q
        ELSE IF r > 50 THEN q + 1
        ELSE IF q % 2 = 0 THEN q ELSE q + 1

\* PriorityLevel with each tier's lower bound excluded
PriorityLevel_Exclusive(final_score) ==
    IF final_score > 750000 THEN "CRITICAL"
    ELSE IF final_score > 600000 THEN "HIGH"
    ELSE IF final_score > 400000 THEN "MEDIUM"
    ELSE IF final_score > 250000 THEN "LOW"
    ELSE "MINIMAL"

\* the thresholds are applied to the unrounded weighted sum (1/10000)
PriorityLevel(final_score) ==
    IF final_score >= 750000 THEN "CRITICAL"
    ELSE IF final_score >= 600000 THEN "HIGH"
    ELSE IF final_score >= 400000 THEN "MEDIUM"
    ELSE IF final_score >= 250000 THEN "LOW"
    ELSE "MINIMAL"

\* date.isoformat(): the date as text
isoformat(d) == [k |-> "iso", v |-> d.v]

calculate_task_score(task, all_tasks, strat, completed, now) ==
    LET val == validate_task_data(task)
        normalized == val.normalized
        weights == WeightsGet(strat, "smart_balance")
        u == calculate_urgency_score(normalized.due_date, now)
        i == calculate_importance_score(normalized.importance)
        e == calculate_effort_score(normalized.estimated_hours)
        d == calculate_dependency_score(normalized.id, normalized.dependencies,
                                        all_tasks, completed)
        final_score == u.score * weights.urgency + i.score * weights.importance
                       + e.score * weights.effort + d.score * weights.dependency
    IN  IF val.exc # "" THEN [exc |-> val.exc]
        ELSE IF d.exc # "" THEN [exc |-> d.exc]
        ELSE [exc |-> "",
              title |-> normalized.title,
              due_date |-> IF normalized.due_date # None
                           THEN isoformat(normalized.due_date) ELSE None,
              importance |-> normalized.importance,
              estimated_hours |-> normalized.estimated_hours,
              dependencies |-> normalized.dependencies,
              id |-> normalized.id,
              score |-> Round2(final_score),
              priority_level |-> PriorityLevel(final_score),
              score_breakdown |-> [urgency |-> u.score, importance |-> i.score,
                                   effort |-> e.score, dependency |-> d.score],
              explanations |-> [urgency |-> u.exp, importance |-> i.exp,
                                effort |-> e.exp, dependency |-> d.exp],
              strategy_used |-> strat,
              warnings |-> val.warnings]

----------------------------------------------------------------------------
(* detect_circular_dependencies, one step of its traversal at a time.      *)
(* A frame of has_cycle is [task_id, path, deps, i]: its two arguments,    *)
(* the list its for loop iterates and the loop's position (0 before the    *)
(* body has run its checks).                                               *)

\* the keys of task_map in insertion order: every non-None id, at the place
\* of its first task
RECURSIVE TaskMapKeys(_)
TaskMapKeys(ts) ==
    IF ts = <<>> THEN <<>>
    ELSE LET init == TaskMapKeys(SubSeq(ts, 1, Len(ts) - 1))
             id == ts[Len(ts)].id
         IN  IF id = NoId \/ \E j \in DOMAIN init : init[j] = id
             THEN init ELSE Append(init, id)

\* is task_id a key of task_map
InTaskMap(ts, task_id) == \E j \in DOMAIN ts : ts[j].id = task_id /\ task_id # NoId

\* task_map[task_id]: a later task replaces an earlier one with the same id
TaskMapGet(ts, task_id) ==
    ts[CHOOSE j \in DOMAIN ts : ts[j].id = task_id
                                /\ \A l \in DOMAIN ts : ts[l].id = task_id => l <= j]

NoRet == [k |-> "pending", v |-> <<>>]
RetNone == [k |-> "None", v |-> <<>>]

InSeq(seq, x) == \E j \in DOMAIN seq : seq[j] = x

\* path.index(task_id), for a task_id that is in path
Index(path, task_id) == CHOOSE j \in DOMAIN path :
                            path[j] = task_id /\ \A l \in 1..(j - 1) : path[l] # task_id

\* CyclePath without the closing "+ [task_id]"
CyclePath_Unclosed(path, task_id) ==
    SubSeq(path, Index(path, task_id), Len(path))

\* CyclePath reporting the whole path instead of its part from task_id on
CyclePath_WholePath(path, task_id) ==
    Append(path, task_id)

\* path[path.index(task_id):] + [task_id]
CyclePath(path, task_id) ==
    Append(SubSeq(path, Index(path, task_id), Len(path)), task_id)

Pop(fs) == SubSeq(fs, 1, Len(fs) - 1)
Top(fs) == fs[Len(fs)]

Raise(exc) ==
    /\ pc' = "error"
    /\ err' = exc

\* analyze_tasks up to the call of detect_circular_dependencies
Start ==
    /\ pc = "start"
    /\ IF tasks = <<>>
       THEN /\ pc' = "done"
            /\ result' = [tasks |-> <<>>,
                          summary |-> [total |-> 0, message |-> "No tasks to analyze"],
                          warnings |-> <<>>]
       ELSE /\ pc' = "detect"
            /\ UNCHANGED result
    /\ UNCHANGED <<entry, request, count, suggested, response>>
    /\ UNCHANGED <<tasks, strategy, completed_ids, today, err, visited, rec_stack,
                   frames, ret, outer, dep_warnings, scored_tasks>>

\* "for task_id in task_map: if task_id not in visited: cycle = has_cycle(task_id, [])"
\* and, past the last key, "return warnings"
OuterLoop ==
    /\ pc = "detect"
    /\ frames = <<>>
    /\ ret = NoRet
    /\ LET keys == TaskMapKeys(tasks) IN
       IF outer > Len(keys)
       THEN /\ pc' = "score"
            /\ UNCHANGED <<frames, outer>>
       ELSE IF keys[outer] \notin visited
       THEN /\ frames' = <<[task_id |-> keys[outer], path |-> <<>>, deps |-> <<>>, i |-> 0]>>
            /\ UNCHANGED <<pc, outer>>
       ELSE /\ outer' = outer + 1
            /\ UNCHANGED <<pc, frames>>
    /\ UNCHANGED <<entry, request, count, suggested, response>>
    /\ UNCHANGED <<tasks, strategy, completed_ids, today, err, visited, rec_stack,
                   ret, dep_warnings, scored_tasks, result>>

\* "if cycle: warnings.append(...)" on the return of the outermost has_cycle
OuterResume ==
    /\ pc = "detect"
    /\ frames = <<>>
    /\ ret # NoRet
    /\ dep_warnings' = IF ret.k = "cycle"
                       THEN Append(dep_warnings, [type |-> "circular_dependency", tasks |-> ret.v])
                       ELSE dep_warnings
    /\ outer' = outer + 1
    /\ ret' = NoRet
    /\ UNCHANGED <<entry, request, count, suggested, response>>
    /\ UNCHANGED <<tasks, strategy, completed_ids, today, pc, err, visited, rec_stack,
                   frames, scored_tasks, result>>

\* has_cycle from its entry to the start of its for loop
HasCycleEnter ==
    /\ pc = "detect"
    /\ frames # <<>>
    /\ ret = NoRet
    /\ Top(frames).i = 0
    /\ LET f == Top(frames)
           task_id == f.task_id
       IN  IF task_id \in rec_stack
           THEN IF InSeq(f.path, task_id)
                THEN /\ ret' = [k |-> "cycle", v |-> CyclePath(f.path, task_id)]
                     /\ frames' = Pop(frames)
                     /\ UNCHANGED <<pc, err, visited, rec_stack>>
                ELSE \* path.index(task_id) of an id that is not in path
                     /\ Raise("ValueError")
                     /\ UNCHANGED <<ret, frames, visited, rec_stack>>
           ELSE IF task_id \in visited
           THEN /\ ret' = RetNone
                /\ frames' = Pop(frames)
                /\ UNCHANGED <<pc, err, visited, rec_stack>>
           ELSE /\ visited' = visited \cup {task_id}
                /\ rec_stack' = rec_stack \cup {task_id}
                /\ IF InTaskMap(tasks, task_id) /\ TaskMapGet(tasks, task_id).dependencies.k \in {"null", "int"}
                   THEN \* "for dep_id in" a value that is not iterable
                        /\ Raise("TypeError")
                        /\ UNCHANGED <<ret, frames>>
                   ELSE /\ frames' = [frames EXCEPT ![Len(frames)] =
                                        [f EXCEPT !.i = 1,
                                                  !.deps = IF InTaskMap(tasks, task_id)
                                                           THEN RawDeps(TaskMapGet(tasks, task_id))
                                                           ELSE <<>>]]
                        /\ UNCHANGED <<pc, err, ret>>
    /\ UNCHANGED <<entry, request, count, suggested, response>>
    /\ UNCHANGED <<tasks, strategy, completed_ids, today, outer, dep_warnings,
                   scored_tasks, result>>

\* the for loop of has_cycle: call has_cycle on the next dependency, or, past
\* the last one, "rec_stack.remove(task_id); return None"
HasCycleIterate ==
    /\ pc = "detect"
    /\ frames # <<>>
    /\ ret = NoRet
    /\ Top(frames).i >= 1
    /\ LET f == Top(frames) IN
       IF f.i <= Len(f.deps)
       THEN /\ frames' = Append(frames, [task_id |-> f.deps[f.i],
                                         path |-> Append(f.path, f.task_id),
                                         deps |-> <<>>, i |-> 0])
            /\ UNCHANGED <<ret, rec_stack>>
       ELSE /\ rec_stack' = rec_stack \ {f.task_id}
            /\ ret' = RetNone
            /\ frames' = Pop(frames)
    /\ UNCHANGED <<entry, request, count, suggested, response>>
    /\ UNCHANGED <<tasks, strategy, completed_ids, today, pc, err, visited, outer,
                   dep_warnings, scored_tasks, result>>

\* "result = has_cycle(...); if result: return result" in the calling frame
HasCycleResume ==
    /\ pc = "detect"
    /\ frames # <<>>
    /\ ret # NoRet
    /\ IF ret.k = "cycle"
       THEN /\ frames' = Pop(frames)
            /\ UNCHANGED ret
       ELSE /\ frames' = [frames EXCEPT ![Len(frames)].i = @ + 1]
            /\ ret' = NoRet
    /\ UNCHANGED <<entry, request, count, suggested, response>>
    /\ UNCHANGED <<tasks, strategy, completed_ids, today, pc, err, visited, rec_stack,
                   outer, dep_warnings, scored_tasks, result>>

----------------------------------------------------------------------------
(* analyze_tasks after the cycle detection. *)

\* one turn of "for task in tasks: scored_tasks.append(calculate_task_score(...))"
ScoreTask ==
    /\ pc = "score"
    /\ LET index == Len(scored_tasks) + 1
           scored == calculate_task_score(tasks[index], tasks, strategy, completed_ids, today)
       IN  IF scored.exc # ""
           THEN /\ Raise(scored.exc)
                /\ UNCHANGED scored_tasks
           ELSE /\ scored_tasks' = Append(scored_tasks, scored)
                /\ pc' = IF index = Len(tasks) THEN "summary" ELSE "score"
                /\ UNCHANGED err
    /\ UNCHANGED <<entry, request, count, suggested, response>>
    /\ UNCHANGED <<tasks, strategy, completed_ids, today, visited, rec_stack, frames,
                   ret, outer, dep_warnings, result>>

\* InsertByScore placing a task before the tasks of equal score
RECURSIVE InsertByScore_TiesFirst(_, _)
InsertByScore_TiesFirst(sorted, t) ==
    IF sorted = <<>> THEN <<t>>
    ELSE IF Head(sorted).score > t.score
         THEN <<Head(sorted)>> \o InsertByScore_TiesFirst(Tail(sorted), t)
         ELSE <<t>> \o sorted

\* list.sort(key=score, reverse=True): descending and stable
RECURSIVE InsertByScore(_, _)
InsertByScore(sorted, t) ==
    IF sorted = <<>> THEN <<t>>
    ELSE IF Head(sorted).score >= t.score
         THEN <<Head(sorted)>> \o InsertByScore(Tail(sorted), t)
         ELSE <<t>> \o sorted

RECURSIVE SortByScore(_)
SortByScore(ts) ==
    IF ts = <<>> THEN <<>>
    ELSE InsertByScore(SortByScore(SubSeq(ts, 1, Len(ts) - 1)), ts[Len(ts)])

\* "for i, task in enumerate(scored_tasks, 1): task['rank'] = i"
AddRank(ts) ==
    [i \in DOMAIN ts |->
        [f \in DOMAIN ts[i] \cup {"rank"} |-> IF f = "rank" THEN i ELSE ts[i][f]]]

\* 'OVERDUE' in t['explanations']['urgency']
IsOverdue(t) == t.explanations.urgency.text = "WARNING: OVERDUE by n day(s)!"

\* the rest of analyze_tasks: sort, rank, the two summary dicts, return.
\* The first summary dict indexes STRATEGY_WEIGHTS[strategy] directly.
Summarize ==
    /\ pc = "summary"
    /\ IF strategy \notin DOMAIN STRATEGY_WEIGHTS
       THEN /\ Raise("KeyError")
            /\ UNCHANGED <<scored_tasks, result>>
       ELSE LET ranked == AddRank(SortByScore(scored_tasks))
                levels == {ranked[i].priority_level : i \in DOMAIN ranked}
                by_priority == [l \in levels |->
                                   Count(ranked, LAMBDA t : t.priority_level = l)]
                ByGet(l) == IF l \in levels THEN by_priority[l] ELSE 0
            IN  /\ scored_tasks' = ranked
                /\ result' =
                     [tasks |-> ranked,
                      summary |-> [total |-> Len(ranked),
                                   by_priority |-> by_priority,
                                   critical_count |-> ByGet("CRITICAL"),
                                   high_count |-> ByGet("HIGH"),
                                   overdue_count |-> Count(ranked, IsOverdue),
                                   warnings |-> dep_warnings,
                                   strategy |-> strategy,
                                   strategy_description |->
                                       WeightsGet(strategy, "balanced").description],
                      warnings |-> dep_warnings]
                /\ pc' = "done"
                /\ UNCHANGED err
    /\ UNCHANGED <<entry, request, count, suggested, response>>
    /\ UNCHANGED <<tasks, strategy, completed_ids, today, visited, rec_stack, frames,
                   ret, outer, dep_warnings>>

----------------------------------------------------------------------------
(* get_top_suggestions after analyze_tasks has returned. *)

\* generate_action_advice: the thresholds are applied to the rounded score
generate_action_advice(task) ==
    IF IsOverdue(task)
    THEN "URGENT: Complete this immediately; it's past the deadline."
    ELSE IF task.score >= 7500
    THEN IF task.estimated_hours <= 2
         THEN "High priority and quick - do this first thing."
         ELSE "Block time today to make significant progress."
    ELSE IF task.score >= 6000
    THEN "Schedule dedicated time for this task this week."
    ELSE IF task.score >= 4000
    THEN "Keep on your radar - tackle after higher priorities."
    ELSE "Lower priority - address when higher items are done."

\* seq[:n], for any integer n
Take(seq, n) ==
    IF n >= 0 THEN SubSeq(seq, 1, Min(n, Len(seq)))
    ELSE SubSeq(seq, 1, Max(0, Len(seq) + n))

\* the reasons of one suggestion
Reasons(task) ==
    LET exp == task.explanations
        due == IF IsOverdue(task) THEN <<exp.urgency>>
               ELSE IF exp.urgency.text = "Due TODAY - urgent!"
               THEN <<[text |-> "Due today!", n |-> 0]>>
               ELSE IF exp.urgency.text = "Due tomorrow - very urgent"
               THEN <<[text |-> "Due tomorrow", n |-> 0]>>
               ELSE <<>>
        imp == IF task.importance >= 8
               THEN <<[text |-> "High importance (n/10)", n |-> task.importance]>>
               ELSE <<>>
        quick == IF task.estimated_hours <= 2
                 THEN <<[text |-> "Quick win - only nh", n |-> task.estimated_hours]>>
                 ELSE <<>>
        \* 'Blocks' in exp['dependency']: the whole joined explanation is added
        blocks == IF \E i \in DOMAIN exp.dependency :
                        exp.dependency[i].text = "Blocks n other task(s)"
                  THEN <<exp.dependency>> ELSE <<>>
        reasons == due \o imp \o quick \o blocks
    IN  IF reasons # <<>> THEN reasons
        ELSE <<[text |-> "Balanced priority based on all factors", n |-> 0]>>

\* {**task, 'suggestion_rank': i, 'why': ..., 'action': ...}
Suggestion(task, i) ==
    [f \in DOMAIN task \cup {"suggestion_rank", "why", "action"} |->
        CASE f = "suggestion_rank" -> i
          [] f = "why"             -> Reasons(task)
          [] f = "action"          -> generate_action_advice(task)
          [] OTHER                 -> task[f]]

\* the overall message, with the number formatted into it
SuggestMessage(summary) ==
    IF summary.overdue_count > 0
    THEN [text |-> "WARNING: You have n overdue task(s). Focus on these first!",
          n |-> summary.overdue_count]
    ELSE IF summary.critical_count > 0
    THEN [text |-> "CRITICAL: n critical task(s) need attention today.",
          n |-> summary.critical_count]
    ELSE IF summary.high_count > 0
    THEN [text |-> "NOTICE: n high-priority task(s) to tackle.", n |-> summary.high_count]
    ELSE [text |-> "No urgent tasks. Great time for deep work on important projects.",
          n |-> 0]

\* get_top_suggestions from the return of analyze_tasks to its own return
GetTopSuggestions ==
    /\ pc = "done"
    /\ entry \in {"get_top_suggestions", "suggest_tasks_view"}
    /\ suggested' =
          IF result.tasks = <<>>
          THEN [suggestions |-> <<>>,
                message |-> [text |-> "No tasks to suggest. Add some tasks first!", n |-> 0],
                summary |-> result.summary]
          ELSE LET top_tasks == Take(result.tasks, count) IN
               [suggestions |-> [i \in DOMAIN top_tasks |-> Suggestion(top_tasks[i], i)],
                message |-> SuggestMessage(result.summary),
                summary |-> result.summary,
                all_tasks_analyzed |-> Len(result.tasks)]
    /\ pc' = "suggested"
    /\ UNCHANGED <<entry, request, count, response>>
    /\ UNCHANGED <<tasks, strategy, completed_ids, today, err, visited, rec_stack, frames,
                   ret, outer, dep_warnings, scored_tasks, result>>

Next ==
    \/ Start
    \/ OuterLoop
    \/ OuterResume
    \/ HasCycleEnter
    \/ HasCycleIterate
    \/ HasCycleResume
    \/ ScoreTask
    \/ Summarize

----------------------------------------------------------------------------
(* Initial states: the arguments of one call of analyze_tasks. *)

IntVal(n) == [k |-> "int", v |-> n]
ListVal(l) == [k |-> "list", v |-> l]
TextVal(cs) == [k |-> "str", v |-> cs]
DateVal(d) == [k |-> "date", v |-> d]

\* the day number of date.today(); due dates lie MaxDays to either side
Today == MaxDays + 1

TaskRecord(id, title, due, imp, hrs, deps) ==
    [id |-> id, title |-> title, due_date |-> due, importance |-> imp,
     estimated_hours |-> hrs, dependencies |-> deps]

\* the task of the spec's scoring scenario
TaskX == TaskRecord(NoId, TextVal(<<"X">>), DateVal(Today), IntVal(9), IntVal(1), ListVal(<<>>))

Chars == {" ", "X"}
TitleInputs ==
    {Absent, None, IntVal(5)}
    \cup {TextVal(cs) : cs \in {<<>>} \cup {<<a>> : a \in Chars}
                            \cup {<<a, b>> : a \in Chars, b \in Chars}
                            \cup {<<" ", "X", " ">>}}
DateInputs ==
    {Absent, None, TextVal(<<"?">>)}
    \cup {DateVal(d) : d \in (Today - MaxDays)..(Today + MaxDays)}
    \cup {[k |-> "iso", v |-> d] : d \in {Today - 1, Today, Today + 1}}
ImportanceInputs ==
    {Absent, None, TextVal(<<"?">>), [k |-> "inf", v |-> 0], [k |-> "numstr", v |-> 7]}
    \cup {IntVal(n) : n \in (0 - 1)..12}
HoursInputs ==
    {Absent, None, TextVal(<<"?">>), [k |-> "inf", v |-> 0], [k |-> "numstr", v |-> 3]}
    \cup {IntVal(n) : n \in (0 - MaxHours)..MaxHours}
\* dependencies: missing, None, a number, a text ("a"), lists
DepInputs ==
    {Absent, None, IntVal(1), TextVal(<<97>>), ListVal(<<>>), ListVal(<<1>>), ListVal(<<2>>)}
StrategyInputs == StrategyNames \cup {"bogus"}

\* one task that differs from TaskX in its id, its dependencies and one more field
FieldTasks ==
    {TaskRecord(id, t, TaskX.due_date, TaskX.importance, TaskX.estimated_hours, deps) :
        id \in {NoId, 1}, t \in TitleInputs, deps \in DepInputs}
    \cup {TaskRecord(id, TaskX.title, d, TaskX.importance, TaskX.estimated_hours, deps) :
        id \in {NoId, 1}, d \in DateInputs, deps \in DepInputs}
    \cup {TaskRecord(id, TaskX.title, TaskX.due_date, i, TaskX.estimated_hours, deps) :
        id \in {NoId, 1}, i \in ImportanceInputs, deps \in DepInputs}
    \cup {TaskRecord(id, TaskX.title, TaskX.due_date, TaskX.importance, h, deps) :
        id \in {NoId, 1}, h \in HoursInputs, deps \in DepInputs}

InitCall ==
    /\ today = Today
    /\ pc = "start"
    /\ err = ""
    /\ visited = {}
    /\ rec_stack = {}
    /\ frames = <<>>
    /\ ret = NoRet
    /\ outer = 1
    /\ dep_warnings = <<>>
    /\ scored_tasks = <<>>
    /\ result = None
    /\ suggested = None

\* analyze_tasks is called directly
DirectCall ==
    /\ entry = "analyze_tasks"
    /\ request = None
    /\ count = 3
    /\ response = None

\* a call on an empty batch or on one task, under any strategy name
Init ==
    /\ tasks \in {<<>>} \cup {<<t>> : t \in FieldTasks}
    /\ strategy \in StrategyInputs
    /\ completed_ids \in {{}, {1}}
    /\ InitCall
    /\ DirectCall

Spec == Init /\ [][Next]_vars

\* the dependency lists of a batch: sequences of ids
RECURSIVE SeqsUpTo(_, _)
SeqsUpTo(S, n) ==
    IF n = 0 THEN {<<>>}
    ELSE LET shorter == SeqsUpTo(S, n - 1)
         IN  shorter \cup {Append(q, x) : q \in {r \in shorter : Len(r) = n - 1}, x \in S}

\* the dependency entries of a batch of n tasks, in input order: pairs
\* <<position of the task, id it depends on>>, grouped by task
GraphEdges(n) ==
    {es \in SeqsUpTo((1..n) \X Ids, MaxEdges) :
        \A i \in 1..(Len(es) - 1) : es[i][1] <= es[i + 1][1]}

\* the dependency list of the task at position j
DepsAt(es, j) ==
    LET own == SelectSeq(es, LAMBDA e : e[1] = j)
    IN  [i \in 1..Len(own) |-> own[i][2]]

GraphTask(id, deps) ==
    TaskRecord(id, TaskX.title, TaskX.due_date, TaskX.importance, TaskX.estimated_hours,
               ListVal(deps))

\* Batches of up to MaxTasks tasks that differ from TaskX in id and
\* dependencies.  The code only compares ids for equality, so a batch of
\* tasks with distinct ids is, up to renaming, one whose task at position j
\* has id j.
\*  - any directed graph with up to MaxEdges edges (self loops, repeated
\*    entries, several cycles, ids no task has) over tasks numbered by position;
\*  - any batch of tasks with distinct ids taken in any order from Ids, each
\*    with one dependency, with no task completed or the task with id 1;
\*  - two tasks that share one id, each with one dependency;
\*  - a task, with no dependency or one on an id no task has, and up to
\*    MaxFan tasks that depend on it.
InitGraph ==
    /\ \/ \E n \in 0..MaxTasks : \E es \in GraphEdges(n) :
             /\ tasks = [j \in 1..n |-> GraphTask(j, DepsAt(es, j))]
             /\ completed_ids = {}
       \/ \E n \in 1..MaxTasks : \E ids \in [1..n -> Ids] : \E deps \in [1..n -> Ids] :
             /\ \A i, j \in 1..n : i # j => ids[i] # ids[j]
             /\ tasks = [j \in 1..n |-> GraphTask(ids[j], <<deps[j]>>)]
             /\ completed_ids \in {{}, {1}}
       \/ \E id \in Ids : \E deps \in [1..2 -> Ids] :
             /\ tasks = [j \in 1..2 |-> GraphTask(id, <<deps[j]>>)]
             /\ completed_ids = {}
       \/ \E m \in 1..MaxFan : \E own \in {<<>>, <<m + 2>>} :
             /\ tasks = <<GraphTask(1, own)>> \o [j \in 1..m |-> GraphTask(1 + j, <<1>>)]
             /\ completed_ids = {}
    /\ strategy = "smart_balance"
    /\ InitCall
    /\ DirectCall

SpecGraph == InitGraph /\ [][Next]_vars

\* get_top_suggestions is called directly, on an empty batch or on one task
\* of the scorers' whole value grid: no due date or one from yesterday to
\* MaxDays ahead, every importance, 1..MaxHours hours, and no dependency (70),
\* an unmet one (50) or one on itself (65); it passes no completed ids on.
NextSuggest ==
    \/ Next
    \/ GetTopSuggestions

ScoreDeps == {<<NoId, <<>>>>, <<NoId, <<2>>>>, <<1, <<1>>>>}

InitSuggest ==
    /\ \/ tasks = <<>>
       \/ \E x \in ScoreDeps :
          \E d \in {None} \cup {DateVal(n) : n \in (Today - 1)..(Today + MaxDays)} :
          \E i \in 1..10 : \E h \in 1..MaxHours :
             tasks = <<TaskRecord(x[1], TaskX.title, d, IntVal(i), IntVal(h), ListVal(x[2]))>>
    /\ strategy \in StrategyNames
    /\ completed_ids = {}
    /\ InitCall
    /\ entry = "get_top_suggestions"
    /\ request = None
    /\ count = 3
    /\ response = None

SpecSuggest == InitSuggest /\ [][NextSuggest]_vars

----------------------------------------------------------------------------
(* The request handlers (tasks/views.py).  A request is                    *)
(* [view, method, body, query]: body is the decoded JSON body              *)
(* [k, v, tasks, strategy] of kind "badjson" (not JSON), "list" (a JSON    *)
(* array v), "object" (a JSON object with the raw values of its 'tasks'    *)
(* and 'strategy' keys) or a scalar kind; query holds the raw values of    *)
(* the query parameters tasks, strategy and count.                         *)

Body(k, v, payload, strat) == [k |-> k, v |-> v, tasks |-> payload, strategy |-> strat]
Query(payload, strat, cnt) == [tasks |-> payload, strategy |-> strat, count |-> cnt]
BadJson == [k |-> "badjson", v |-> 0]
Dict(n) == [k |-> "dict", v |-> n]

\* Python truth of a raw value ("if not tasks")
Truthy(raw) ==
    CASE raw.k \in {"list", "str"} -> raw.v # <<>>
      [] raw.k \in {"int", "dict"} -> raw.v # 0
      [] OTHER                     -> FALSE

Response(status, text) == [status |-> status, body |-> text]

\* the view returns a response without calling the core
Reply(status, text) ==
    /\ response' = Response(status, text)
    /\ pc' = "responded"
    /\ UNCHANGED <<tasks, strategy, count, err>>

\* the exception the core raises on a payload that is no list:
\* detect_circular_dependencies iterates it and calls .get on each item
NonListFailure(payload) ==
    IF payload.k \in {"str", "dict"} THEN "AttributeError" ELSE "TypeError"

\* analyze_tasks_view up to its call of analyze_tasks
analyze_tasks_view ==
    /\ pc = "request"
    /\ request.view = "analyze_tasks_view"
    /\ LET body == request.body
           payload == IF body.k = "list" THEN ListVal(body.v)
                      ELSE IF body.tasks = Absent THEN ListVal(<<>>) ELSE body.tasks
           strat == IF body.k = "list" \/ body.strategy = Absent
                    THEN "smart_balance" ELSE body.strategy.v
       IN  IF body.k = "badjson"
           THEN Reply(400, "Invalid JSON format")
           ELSE IF body.k \notin {"list", "object"}
           THEN \* body.get of a value that is no dict: AttributeError
                Reply(500, "Server error occurred")
           ELSE IF ~Truthy(payload)
           THEN Reply(400, "No tasks provided. Please send a list of tasks.")
           ELSE IF payload.k # "list"
           THEN Reply(400, "Tasks must be a list/array.")
           ELSE IF strat \notin DOMAIN STRATEGY_WEIGHTS
           THEN Reply(400, "Invalid strategy")
           ELSE /\ tasks' = payload.v
                /\ strategy' = strat
                /\ pc' = "start"
                /\ UNCHANGED <<count, err, response>>
    /\ UNCHANGED <<entry, request, suggested, completed_ids, today, visited, rec_stack,
                   frames, ret, outer, dep_warnings, scored_tasks, result>>

\* suggest_tasks_view up to its call of get_top_suggestions.  A payload that
\* is no list makes the core fail in its first statement; that call and its
\* failure are part of this step.
suggest_tasks_view ==
    /\ pc = "request"
    /\ request.view = "suggest_tasks_view"
    /\ LET body == request.body
           query == request.query
           post == request.method = "POST"
           payload == IF post
                      THEN IF body.k = "list" THEN ListVal(body.v)
                           ELSE IF body.tasks = Absent THEN ListVal(<<>>) ELSE body.tasks
                      ELSE IF query.tasks \in {Absent, BadJson} THEN ListVal(<<>>)
                           ELSE query.tasks
           strat == IF post
                    THEN IF body.k = "list" \/ body.strategy = Absent
                         THEN "smart_balance" ELSE body.strategy.v
                    ELSE IF query.strategy = Absent THEN "smart_balance"
                         ELSE query.strategy.v
           cnt == IntOf(query.count, 3)
       IN  IF post /\ body.k = "badjson"
           THEN Reply(400, "Invalid JSON format")
           ELSE IF post /\ body.k \notin {"list", "object"}
           THEN Reply(500, "Server error occurred")
           ELSE IF ~Truthy(payload)
           THEN Reply(400, "No tasks provided.")
           ELSE IF ~cnt.ok
           THEN \* int(request.GET.get('count', 3)) raises
                Reply(500, "Server error occurred")
           ELSE IF payload.k # "list"
           THEN /\ err' = NonListFailure(payload)
                /\ response' = Response(500, "Server error occurred")
                /\ pc' = "responded"
                /\ count' = Min(cnt.v, 10)
                /\ UNCHANGED <<tasks, strategy>>
           ELSE /\ tasks' = payload.v
                /\ strategy' = strat
                /\ count' = Min(cnt.v, 10)
                /\ pc' = "start"
                /\ UNCHANGED <<err, response>>
    /\ UNCHANGED <<entry, request, suggested, completed_ids, today, visited, rec_stack,
                   frames, ret, outer, dep_warnings, scored_tasks, result>>

\* the rest of a view once the core has returned or raised: the success
\* response, or the response of "except Exception"
ViewReturn ==
    /\ entry \in {"analyze_tasks_view", "suggest_tasks_view"}
    /\ \/ /\ pc = "done" /\ entry = "analyze_tasks_view"
          /\ response' = [status |-> 200, body |-> result]
       \/ /\ pc = "suggested" /\ entry = "suggest_tasks_view"
          /\ response' = [status |-> 200, body |-> suggested]
       \/ /\ pc = "error"
          /\ response' = Response(500, "Server error occurred")
    /\ pc' = "responded"
    /\ UNCHANGED <<entry, request, count, suggested>>
    /\ UNCHANGED <<tasks, strategy, completed_ids, today, err, visited, rec_stack, frames,
                   ret, outer, dep_warnings, scored_tasks, result>>

NextView ==
    \/ analyze_tasks_view
    \/ suggest_tasks_view
    \/ NextSuggest
    \/ ViewReturn

\* the task lists, payloads, strategies and counts of the requests
TaskLists ==
    {<<>>, <<TaskX>>, <<GraphTask(1, <<1>>)>>, <<GraphTask(1, <<2>>), GraphTask(2, <<>>)>>}
Payloads ==
    {Absent, None, IntVal(0), IntVal(5), TextVal(<<>>), TextVal(<<"a">>), Dict(0), Dict(1)}
    \cup {ListVal(l) : l \in TaskLists}
StrategyVal(name) == [k |-> "str", v |-> name]
StrategyRaws == {Absent} \cup {StrategyVal(n) : n \in StrategyInputs}
CountRaws == {Absent, [k |-> "numstr", v |-> 1], [k |-> "numstr", v |-> 12], TextVal(<<"x">>)}
NoQuery == Query(Absent, Absent, Absent)
NoBody == Body("none", 0, Absent, Absent)

\* POST requests to both views (a JSON array, a JSON object, a JSON scalar,
\* a body that is no JSON) and GET requests to suggest_tasks_view
Requests ==
    {[view |-> v, method |-> "POST", body |-> Body("list", l, Absent, Absent), query |-> NoQuery] :
        v \in {"analyze_tasks_view", "suggest_tasks_view"}, l \in TaskLists}
    \cup {[view |-> v, method |-> "POST", body |-> Body("object", 0, t, s), query |-> NoQuery] :
        v \in {"analyze_tasks_view", "suggest_tasks_view"}, t \in Payloads, s \in StrategyRaws}
    \cup {[view |-> v, method |-> "POST", body |-> b, query |-> NoQuery] :
        v \in {"analyze_tasks_view", "suggest_tasks_view"},
        b \in {Body(k, 0, Absent, Absent) : k \in {"badjson", "int", "str", "null"}}}
    \cup {[view |-> "suggest_tasks_view", method |-> m,
           body |-> IF m = "POST" THEN Body("list", l, Absent, Absent) ELSE NoBody,
           query |-> Query(IF m = "POST" THEN Absent ELSE ListVal(l), Absent, c)] :
        m \in {"POST", "GET"}, c \in CountRaws, l \in TaskLists \ {<<>>}}
    \cup {[view |-> "suggest_tasks_view", method |-> "GET", body |-> NoBody,
           query |-> Query(t, s, Absent)] :
        t \in Payloads \cup {BadJson}, s \in StrategyRaws}

InitView ==
    /\ request \in Requests
    /\ entry = request.view
    /\ pc = "request"
    /\ tasks = <<>>
    /\ strategy = "smart_balance"
    /\ completed_ids = {}
    /\ count = 3
    /\ response = None
    /\ today = Today
    /\ err = ""
    /\ visited = {}
    /\ rec_stack = {}
    /\ frames = <<>>
    /\ ret = NoRet
    /\ outer = 1
    /\ dep_warnings = <<>>
    /\ scored_tasks = <<>>
    /\ result = None
    /\ suggested = None

SpecView == InitView /\ [][NextView]_vars

----------------------------------------------------------------------------
(* Properties. *)

\* analyze_tasks has returned a result for a non-empty batch
Returned == pc = "done" /\ tasks # <<>>

\* detect_circular_dependencies has returned its warnings
Detected == pc \in {"score", "summary", "done"}

\* C1 (as stated): the task X (due today, importance 9, one hour, no
\* dependencies) scored under smart_balance has urgency 95.0, importance 100,
\* effort 100.0, dependency 70.0, final score 93.75 and level CRITICAL.
C1_ScenarioAsStated ==
    (Returned /\ tasks = <<TaskX>> /\ strategy = "smart_balance") =>
        /\ result.tasks[1].score_breakdown =
              [urgency |-> 9500, importance |-> 10000, effort |-> 10000, dependency |-> 7000]
        /\ result.tasks[1].score = 9375
        /\ result.tasks[1].priority_level = "CRITICAL"

\* C1 (amended): the task X scored under smart_balance has urgency 95.0,
\* importance 100, effort 85.0 (one hour is the 1-2 hour branch), dependency
\* 70.0, final score 90.75 and level CRITICAL.
C1_ScenarioScores ==
    (Returned /\ tasks = <<TaskX>> /\ strategy = "smart_balance") =>
        /\ result.tasks[1].score_breakdown =
              [urgency |-> 9500, importance |-> 10000, effort |-> 8500, dependency |-> 7000]
        /\ result.tasks[1].score = 9075
        /\ result.tasks[1].priority_level = "CRITICAL"

C1_ScenarioScored ==
    Returned /\ tasks = <<TaskX>> /\ strategy = "smart_balance" /\ result.tasks[1].rank = 1

\* C2: for a non-empty batch and a strategy name outside the table,
\* analyze_tasks does not fail once every task is scored: it returns a result
\* whose tasks carry the smart_balance scores and whose summary carries the
\* default profile's description.
C2_UnknownStrategyFallsBack ==
    (tasks # <<>> /\ strategy \notin StrategyNames /\ Len(scored_tasks) = Len(tasks)) =>
        /\ pc # "error"
        /\ \A i \in DOMAIN scored_tasks :
              \E j \in DOMAIN tasks :
                 scored_tasks[i].score =
                    calculate_task_score(tasks[j], tasks, "smart_balance",
                                         completed_ids, today).score
        /\ pc = "done" =>
              result.summary.strategy_description = STRATEGY_WEIGHTS["smart_balance"].description

\* C3: a task whose dependencies value is not a list never makes
\* analyze_tasks fail: no TypeError leaves the cycle detection or the blocker
\* counting, and once the call has returned the task carries an empty
\* dependency list and a warning.
C3_MalformedDependenciesNotFatal ==
    (\E i \in DOMAIN tasks : ~IsList(tasks[i].dependencies)) =>
        /\ err # "TypeError"
        /\ pc = "done" =>
              Count(result.tasks,
                    LAMBDA t : /\ t.dependencies = <<>>
                               /\ InSeq(t.warnings,
                                        "Invalid dependencies format - defaulted to empty list"))
                 = Count(tasks, LAMBDA t : ~IsList(t.dependencies))

\* C4: on a batch whose dependencies are all lists,
\* detect_circular_dependencies never ends in an error: no exception is
\* raised while a traversal is under way.
C4_DetectNeverFails ==
    (\A i \in DOMAIN tasks : IsList(tasks[i].dependencies)) =>
        ~(pc = "error" /\ frames # <<>>)

\* C5: validate_task_data never raises: no AttributeError (a title that is
\* not text) and no OverflowError (a number int() cannot convert) leaves it.
C5_ValidateNeverRaises ==
    err \notin {"AttributeError", "OverflowError"}

\* the batch is three tasks with distinct ids, each depending on exactly one
\* of the other two, so that the three form one cycle
IsThreeCycle(ts) ==
    /\ Len(ts) = 3
    /\ \A i, j \in 1..3 : i # j => ts[i].id # ts[j].id
    /\ \A i \in 1..3 : /\ ts[i].dependencies.k = "list"
                       /\ Len(ts[i].dependencies.v) = 1
                       /\ ts[i].dependencies.v[1] # ts[i].id
                       /\ \E j \in 1..3 : ts[j].id = ts[i].dependencies.v[1]
    /\ \A i, j \in 1..3 : i # j => ts[i].dependencies.v[1] # ts[j].dependencies.v[1]

\* the id the task with this id depends on, in a three-cycle
DepOf(ts, id) == TaskMapGet(ts, id).dependencies.v[1]

\* C6: for three tasks A, B, C with A depending on B, B on C and C on A, in
\* any input order, detect_circular_dependencies returns exactly one warning,
\* whose id sequence is the cycle from the first task of the batch back to it.
C6_ThreeCycleReportedOnce ==
    (Detected /\ IsThreeCycle(tasks)) =>
        /\ Len(dep_warnings) = 1
        /\ LET a == tasks[1].id
               b == DepOf(tasks, a)
               c == DepOf(tasks, b)
           IN  dep_warnings[1].tasks = <<a, b, c, a>>

C6_ThreeCycleDetected ==
    Detected /\ IsThreeCycle(tasks) /\ tasks[1].id = 2 /\ dep_warnings # <<>>

\* C7 (as stated): for every scored task with importance i2 and every
\* i1 < i2, the importance score of i1 is at most that of i2, and strictly
\* less whenever i2 >= 8.
C7_ImportanceStrictAbove8 ==
    Returned =>
        \A k \in DOMAIN result.tasks :
           \A i1 \in 1..(result.tasks[k].importance - 1) :
              LET i2 == result.tasks[k].importance
                  s1 == calculate_importance_score(i1).score
                  s2 == result.tasks[k].score_breakdown.importance
              IN  /\ s1 <= s2
                  /\ i2 >= 8 => s1 < s2

\* C7 (amended): for every scored task with importance i2 and every i1 < i2,
\* the importance score of i1 is at most that of i2, and strictly less
\* whenever i2 >= 8, except between 9 and 10, which both score the cap 100.
C7_ImportanceMonotonic ==
    Returned =>
        \A k \in DOMAIN result.tasks :
           \A i1 \in 1..(result.tasks[k].importance - 1) :
              LET i2 == result.tasks[k].importance
                  s1 == calculate_importance_score(i1).score
                  s2 == result.tasks[k].score_breakdown.importance
              IN  /\ s1 <= s2
                  /\ (i2 >= 8 /\ ~(i1 = 9 /\ i2 = 10)) => s1 < s2
                  /\ (i1 = 9 /\ i2 = 10) => (s1 = 10000 /\ s2 = 10000)

C7_ImportanceTenScored ==
    Returned /\ result.tasks[1].importance = 10
             /\ result.tasks[1].score_breakdown.importance = 10000

\* C8: for every scored task with h2 estimated hours and every integer
\* h1 < h2 (down to hours below 1), the effort score of h1 is at least that
\* of h2.
C8_EffortNonIncreasing ==
    Returned =>
        \A k \in DOMAIN result.tasks :
           \A h1 \in (0 - MaxHours)..(result.tasks[k].estimated_hours - 1) :
              calculate_effort_score(h1).score >= result.tasks[k].score_breakdown.effort

C8_LongTaskScored ==
    Returned /\ tasks[1].estimated_hours = IntVal(MaxHours)
             /\ result.tasks[1].score_breakdown.effort = 1000

\* the due date a scored task was given, as a day number (None when absent)
DueDay(t) == t.due_date.v

\* C9: a scored task whose due date is before the current date has urgency
\* exactly 100.0, however many days overdue; one due on the current date has
\* 95.0 and one due the day after has 85.0.
C9_UrgencyOverdueTodayTomorrow ==
    Returned =>
        \A k \in DOMAIN result.tasks :
           result.tasks[k].due_date # None =>
              /\ DueDay(result.tasks[k]) < today => result.tasks[k].score_breakdown.urgency = 10000
              /\ DueDay(result.tasks[k]) = today => result.tasks[k].score_breakdown.urgency = 9500
              /\ DueDay(result.tasks[k]) = today + 1 => result.tasks[k].score_breakdown.urgency = 8500

C9_LongOverdueScored ==
    Returned /\ result.tasks[1].due_date # None /\ DueDay(result.tasks[1]) = today - MaxDays

\* C10: in the strategy table every profile's four weights sum to 1.0 (100
\* hundredths), and balanced and smart_balance are the same profile (weights
\* and description); a batch scored under either name gets the same scores.
C10_WeightsSumToOne ==
    /\ \A s \in DOMAIN STRATEGY_WEIGHTS :
          STRATEGY_WEIGHTS[s].urgency + STRATEGY_WEIGHTS[s].importance
          + STRATEGY_WEIGHTS[s].effort + STRATEGY_WEIGHTS[s].dependency = 100
    /\ STRATEGY_WEIGHTS["balanced"] = STRATEGY_WEIGHTS["smart_balance"]
    /\ (Returned /\ strategy = "balanced") =>
          \A k \in DOMAIN result.tasks :
             \E j \in DOMAIN tasks :
                result.tasks[k].score =
                   calculate_task_score(tasks[j], tasks, "smart_balance",
                                        completed_ids, today).score

C10_BalancedScored ==
    Returned /\ strategy = "balanced" /\ result.summary.strategy = "balanced"

\* the scored tasks in input order, as analyze_tasks appends them
ScoredInputs ==
    [j \in DOMAIN tasks |->
        calculate_task_score(tasks[j], tasks, strategy, completed_ids, today)]

\* the result task r is the scored task s with a rank added
IsRanked(r, s) ==
    /\ DOMAIN r = DOMAIN s \cup {"rank"}
    /\ \A f \in DOMAIN s : r[f] = s[f]

\* C11: for every non-empty batch, the tasks analyze_tasks returns are a
\* permutation of the scored inputs, ordered by score descending, with tasks
\* of equal score in their input order, and each task's rank is its 1-based
\* position.
C11_SortedStableRanked ==
    Returned =>
        \E p \in [DOMAIN tasks -> DOMAIN tasks] :
           /\ \A i, j \in DOMAIN tasks : i # j => p[i] # p[j]
           /\ DOMAIN result.tasks = DOMAIN tasks
           /\ \A k \in DOMAIN tasks :
                 /\ IsRanked(result.tasks[k], ScoredInputs[p[k]])
                 /\ result.tasks[k].rank = k
           /\ \A k \in 1..(Len(tasks) - 1) :
                 \/ result.tasks[k].score > result.tasks[k + 1].score
                 \/ /\ result.tasks[k].score = result.tasks[k + 1].score
                    /\ p[k] < p[k + 1]

\* three tasks returned, the first input last and the two others tied ahead of it
C11_TieReordered ==
    /\ Returned
    /\ Len(tasks) = 3
    /\ result.tasks[1].score = result.tasks[2].score
    /\ result.tasks[2].score > result.tasks[3].score
    /\ result.tasks[1].id = tasks[2].id
    /\ result.tasks[2].id = tasks[3].id
    /\ result.tasks[3].id = tasks[1].id

\* how many entries of a list satisfy "d not in completed_ids"
Unmet(deps) == Cardinality({i \in DOMAIN deps : deps[i] \notin completed_ids})

\* how many tasks of the batch list this id in their dependencies
BlockedCount(id) ==
    Cardinality({j \in DOMAIN tasks : \E l \in DOMAIN RawDeps(tasks[j]) :
                                          RawDeps(tasks[j])[l] = id})

\* the batch is two tasks, A depending on B alone and B on nothing, B not completed
IsABScenario(a, b) ==
    /\ Len(tasks) = 2
    /\ {a, b} = {1, 2}
    /\ tasks[a].id # NoId /\ tasks[b].id # NoId /\ tasks[a].id # tasks[b].id
    /\ tasks[a].dependencies = ListVal(<<tasks[b].id>>)
    /\ tasks[b].dependencies = ListVal(<<>>)
    /\ tasks[b].id \notin completed_ids

\* C12: the dependency score of every scored task is the clamp to [0,100] of
\* 70, minus min(50, 20 x unmet) when it has an unmet dependency, plus 10 when
\* it has dependencies and none is unmet, plus min(30, 15 x blocked_count),
\* where blocked_count is the number of tasks of the batch that list its id
\* (0 for a task without id); and in a two-task batch where A depends on B and
\* B is not completed, A scores 50 and B scores 85.
C12_DependencyScoreFormula ==
    Returned =>
        /\ \A k \in DOMAIN result.tasks :
              LET r == result.tasks[k]
                  unmet == Unmet(r.dependencies)
                  blocked_count == IF r.id = NoId THEN 0 ELSE BlockedCount(r.id)
                  own == IF unmet > 0 THEN 0 - Min(50, 20 * unmet)
                         ELSE IF r.dependencies # <<>> THEN 10 ELSE 0
                  sum == 70 + own + Min(30, 15 * blocked_count)
              IN  r.score_breakdown.dependency = 100 * Max(0, Min(100, sum))
        /\ \A a, b \in DOMAIN tasks :
              IsABScenario(a, b) =>
                 \A k \in DOMAIN result.tasks :
                    /\ result.tasks[k].id = tasks[a].id =>
                          result.tasks[k].score_breakdown.dependency = 5000
                    /\ result.tasks[k].id = tasks[b].id =>
                          result.tasks[k].score_breakdown.dependency = 8500

\* the scenario was scored with A first in the batch: B ranks ahead of A
C12_ABScored ==
    /\ Returned
    /\ IsABScenario(1, 2)
    /\ result.tasks[1].id = tasks[2].id
    /\ result.tasks[1].score_breakdown.dependency = 8500
    /\ result.tasks[2].score_breakdown.dependency = 5000

\* the invariants of a normalized task
IsNormalized(n) ==
    /\ n.importance \in 1..10
    /\ n.estimated_hours \in Nat /\ n.estimated_hours >= 1
    /\ n.dependencies \in Seq(Ids)
    /\ n.title # <<>>

\* C13: whenever validate_task_data returns, for any raw task (negative,
\* zero and out-of-range numbers, values that are no numbers, dependencies
\* that are no list), the normalized task has an integer importance in 1..10,
\* integer estimated_hours >= 1, a list (of ids) as dependencies and a
\* non-empty title; the scored tasks carry the same fields.
C13_NormalizedInvariants ==
    /\ \A i \in DOMAIN tasks :
          validate_task_data(tasks[i]).exc = "" =>
             IsNormalized(validate_task_data(tasks[i]).normalized)
    /\ \A k \in DOMAIN scored_tasks : IsNormalized(scored_tasks[k])

\* a task of zero hours was scored with the default of 2 and a warning
C13_ZeroHoursScored ==
    /\ Returned
    /\ tasks[1].estimated_hours = IntVal(0)
    /\ result.tasks[1].estimated_hours = 2
    /\ InSeq(result.tasks[1].warnings, "Invalid hours - converted to positive")

\* the n of the explanation "Blocks n other task(s)" of a scored task (0 when
\* the explanation is not given)
BlocksOthers(t) ==
    LET given == {i \in DOMAIN t.explanations.dependency :
                     t.explanations.dependency[i].text = "Blocks n other task(s)"}
    IN  IF given = {} THEN 0 ELSE t.explanations.dependency[CHOOSE i \in given : TRUE].n

\* how many tasks of the batch other than the one at position j list this id
OtherBlockedCount(j, id) ==
    Cardinality({l \in DOMAIN tasks \ {j} : \E m \in DOMAIN RawDeps(tasks[l]) :
                                               RawDeps(tasks[l])[m] = id})

\* C15: the blocker bonus of a task counts only the OTHER tasks of the
\* batch that list its id: while the batch is being scored, the task scored
\* from the input at position j reports "Blocks n other task(s)" for exactly
\* the n other tasks that list its id, so a lone task that lists its own id
\* gets no such explanation and no bonus.
C15_BlockerCountsOthersOnly ==
    pc \in {"score", "summary"} =>
        \A j \in DOMAIN scored_tasks :
           scored_tasks[j].id # NoId =>
              /\ BlocksOthers(scored_tasks[j]) = OtherBlockedCount(j, scored_tasks[j].id)
              /\ (Len(tasks) = 1 /\ scored_tasks[j].dependencies = <<scored_tasks[j].id>>
                  /\ completed_ids = {}) =>
                     scored_tasks[j].score_breakdown.dependency = 5000

\* the batch has a task with id x that lists y in its dependencies
ListsDep(x, y) ==
    \E j \in DOMAIN tasks :
       /\ tasks[j].id = x
       /\ \E m \in DOMAIN RawDeps(tasks[j]) : RawDeps(tasks[j])[m] = y

\* C16: every warning of detect_circular_dependencies describes a real
\* cycle: its id sequence has at least 2 entries, begins and ends with the
\* same id, and each entry's task lists the next entry in its dependencies.
C16_WarningsAreCycles ==
    \A w \in DOMAIN dep_warnings :
       LET cycle == dep_warnings[w].tasks IN
       /\ Len(cycle) >= 2
       /\ cycle[1] = cycle[Len(cycle)]
       /\ \A i \in 1..(Len(cycle) - 1) : ListsDep(cycle[i], cycle[i + 1])

\* a cycle of two tasks was reported that the traversal entered from a third
\* task outside it
C16_InnerCycleReported ==
    /\ Detected
    /\ Len(tasks) = 3
    /\ \E w \in DOMAIN dep_warnings :
          /\ Len(dep_warnings[w].tasks) = 3
          /\ tasks[1].id \notin {dep_warnings[w].tasks[i] : i \in 1..3}

\* the ids on the current traversal path: the activations of has_cycle that
\* have passed "rec_stack.add(task_id)" and have not returned
PathIds == {frames[j].task_id : j \in {l \in DOMAIN frames : frames[l].i >= 1}}

\* C17: in detect_circular_dependencies, whenever no activation is handing
\* back a result, rec_stack is the set of ids on the current traversal path;
\* in particular it is empty whenever the outer loop is about to start a
\* traversal, also after an earlier traversal has reported a cycle.
C17_RecStackIsPath ==
    (pc = "detect" /\ ret = NoRet) =>
        /\ rec_stack = PathIds
        /\ frames = <<>> => rec_stack = {}

\* the thresholds applied to the reported score (hundredths)
LevelOfScore(score) ==
    IF score >= 7500 THEN "CRITICAL"
    ELSE IF score >= 6000 THEN "HIGH"
    ELSE IF score >= 4000 THEN "MEDIUM"
    ELSE IF score >= 2500 THEN "LOW"
    ELSE "MINIMAL"

DoFirstAdvice ==
    {"High priority and quick - do this first thing.",
     "Block time today to make significant progress."}

\* C18: in exact arithmetic, the priority_level of every scored task, taken
\* from the unrounded weighted sum, is the level the thresholds 75 / 60 / 40 /
\* 25 give for its reported 2-decimal score; and generate_action_advice
\* gives the 'do first' / 'block time today' advice to a suggested task that
\* is not overdue exactly when its priority_level is CRITICAL.
C18_LevelMatchesRoundedScore ==
    /\ \A k \in DOMAIN scored_tasks :
          scored_tasks[k].priority_level = LevelOfScore(scored_tasks[k].score)
    /\ pc = "suggested" =>
          \A i \in DOMAIN suggested.suggestions :
             LET g == suggested.suggestions[i] IN
             ~IsOverdue(g) => (g.action \in DoFirstAdvice <=> g.priority_level = "CRITICAL")

\* a task that is not overdue and scores exactly 75.00 was suggested as
\* CRITICAL with the 'block time today' advice
C18_ThresholdSuggested ==
    /\ pc = "suggested"
    /\ suggested.suggestions # <<>>
    /\ suggested.suggestions[1].score = 7500
    /\ suggested.suggestions[1].priority_level = "CRITICAL"
    /\ ~IsOverdue(suggested.suggestions[1])
    /\ suggested.suggestions[1].action = "Block time today to make significant progress."

\* the task payload and the strategy name a request carries
RequestPayload(r) ==
    IF r.method = "POST"
    THEN IF r.body.k = "list" THEN ListVal(r.body.v)
         ELSE r.body.tasks
    ELSE r.query.tasks

RequestStrategy(r) ==
    LET raw == IF r.method = "POST" THEN r.body.strategy ELSE r.query.strategy
    IN  IF raw = Absent THEN "smart_balance" ELSE raw.v

\* the request carries a JSON array or object (or query parameters) and its
\* task collection is empty or missing, or its task payload is no list, or
\* its strategy is not in the table
IsRejectable(r) ==
    /\ r.method = "POST" => r.body.k \in {"list", "object"}
    /\ \/ RequestPayload(r).k # "list"
       \/ RequestPayload(r).v = <<>>
       \/ RequestStrategy(r) \notin StrategyNames

\* C14: both request handlers answer every request whose task collection is
\* empty, whose task payload is not a list or whose strategy name is not in
\* the strategy table with status 400, without invoking the scoring core: no
\* such request reaches analyze_tasks / get_top_suggestions or gets a 500.
C14_ViewsRejectBadRequests ==
    IsRejectable(request) =>
        /\ pc \in {"request", "responded"}
        /\ err = ""
        /\ pc = "responded" => response.status = 400

====
